---- MODULE Spec2Model ----
(***************************************************************************)
(* State-machine model of the SecurePasswordGenerator React component     *)
(* (src/Passowrd-Generator.jsx).                                           *)
(*                                                                         *)
(* Characters are UTF-16 code units (integers), strings are sequences of  *)
(* code units.  The component's useState cells are the variables of the   *)
(* same name; the locals of a running generatePassword call (charset,     *)
(* randomBytes, newPassword, extraBytes) are variables that are only      *)
(* meaningful while pc = "topup".  JavaScript runs handlers to completion, *)
(* so user events and timers are only taken while pc = "idle"; the only   *)
(* places where a generatePassword call is split into steps are its       *)
(* draws from window.crypto.getRandomValues, which may throw.             *)
(***************************************************************************)
EXTENDS Integers, Sequences, FiniteSets, TLC

VARIABLES
  password,             \* useState('')                     line 20
  passwordLength,       \* useState(16)                     line 21
  entropy,              \* useState(0)                      line 22
  passwordHistory,      \* useState([])                     line 23
  showPasswordHistory,  \* useState(false)                  line 24
  copied,               \* useState(false)                  line 25
  strengthLevel,        \* useState(0)                      line 26
  options,              \* useState({...})                  line 31
  effectPending,        \* the useEffect of line 163 is scheduled
  pc,                   \* position of generatePassword: "idle" | "topup"
  charset,              \* local of generatePassword        line 92
  randomBytes,          \* local of generatePassword        line 116
  newPassword,          \* local of generatePassword        line 119
  extraBytes,           \* local of the while loop          line 134
  outcome,              \* how the last generatePassword call ended
  copyTimers,           \* pending setTimeout(() => setCopied(false)) callbacks
  generations,          \* generatePassword calls that published a password
  fuel                  \* what is left of the session's bounds

vars == << password, passwordLength, entropy, passwordHistory,
           showPasswordHistory, copied, strengthLevel, options,
           effectPending, pc, charset, randomBytes, newPassword,
           extraBytes, outcome, copyTimers, generations, fuel >>

(***************************************************************************)
(* Bounds of the explored sessions.                                        *)
(***************************************************************************)
MaxOptionChanges == 4
MaxLengthChanges == 1
MaxClicks == 5
MaxViews == 2
MaxOddDraws == 1

(***************************************************************************)
(* Program constants.                                                      *)
(***************************************************************************)
MinLength == 8
MaxLength == 64
DefaultLength == 16
HistoryKeep == 4
Micro == 1000000

OptionNames ==
  {"lowercase", "uppercase", "numbers", "symbols", "ambiguous", "extendedAscii"}

InclusionNames ==
  {"lowercase", "uppercase", "numbers", "symbols", "extendedAscii"}

DefaultOptions ==
  [lowercase |-> TRUE, uppercase |-> TRUE, numbers |-> TRUE,
   symbols |-> TRUE, ambiguous |-> FALSE, extendedAscii |-> FALSE]

(***************************************************************************)
(* charSets, lines 41-48.                                                  *)
(***************************************************************************)
Lowercase == [i \in 1..26 |-> 96 + i]

Uppercase == [i \in 1..26 |-> 64 + i]

Numbers == [i \in 1..10 |-> 47 + i]

Symbols ==
  << 33, 64, 35, 36, 37, 94, 38, 42, 40, 41, 45, 95, 61, 43, 91, 93,
     123, 125, 124, 59, 58, 44, 46, 60, 62, 63, 47, 126, 96, 34, 39, 92 >>

Ambiguous == << 73, 108, 49, 79, 48 >>

ExtendedAscii ==
  << 8364, 163, 165, 162, 167, 169, 174, 8482, 191, 161, 192, 193, 194, 195, 196, 197,
     198, 199, 200, 201, 202, 203, 204, 205, 206, 207, 208, 209, 210, 211, 212, 213,
     214, 216, 217, 218, 219, 220, 221, 222, 223, 224, 225, 226, 227, 228, 229, 230,
     231, 232, 233, 234, 235, 236, 237, 238, 239, 240, 241, 242, 243, 244, 245, 246,
     248, 249, 250, 251, 252, 253, 254, 255 >>

\* 'Please select at least one character set', line 109
EmptyCharsetMessage ==
  << 80, 108, 101, 97, 115, 101, 32, 115, 101, 108, 101, 99, 116, 32, 97, 116,
     32, 108, 101, 97, 115, 116, 32, 111, 110, 101, 32, 99, 104, 97, 114, 97,
     99, 116, 101, 114, 32, 115, 101, 116 >>

CharSets ==
  [lowercase |-> Lowercase, uppercase |-> Uppercase, numbers |-> Numbers,
   symbols |-> Symbols, ambiguous |-> Ambiguous, extendedAscii |-> ExtendedAscii]

Range(s) == {s[i] : i \in 1..Len(s)}

\* String.prototype.includes for a one-character argument
Includes(s, c) == \E i \in 1..Len(s) : s[i] = c

(***************************************************************************)
(* Lines 92-105: the character set of a generatePassword call.             *)
(***************************************************************************)
Concatenated(opts) ==
  (IF opts.lowercase THEN CharSets.lowercase ELSE << >>) \o
  (IF opts.uppercase THEN CharSets.uppercase ELSE << >>) \o
  (IF opts.numbers THEN CharSets.numbers ELSE << >>) \o
  (IF opts.symbols THEN CharSets.symbols ELSE << >>) \o
  (IF opts.extendedAscii THEN CharSets.extendedAscii ELSE << >>)

KeepChar_NeverFilters(opts, c) == TRUE

\* the filter of lines 101-105
KeepChar(opts, c) == opts.ambiguous \/ ~Includes(CharSets.ambiguous, c)

BuildCharset(opts) ==
  SelectSeq(Concatenated(opts), LAMBDA c : KeepChar(opts, c))

(***************************************************************************)
(* Lines 55-59: what window.crypto.getRandomValues may hand back.  The     *)
(* bytes of an array are (start + j * stride) mod 256.  The reference      *)
(* array mixes low and high bytes; the odd arrays are all-255 and a ramp   *)
(* from 170, and a session may meet only fuel.odd of them.                 *)
(***************************************************************************)
ByteArray(start, stride, n) == [j \in 1..n |-> (start + (j - 1) * stride) % 256]

ReferenceArray(n) == ByteArray(0, 85, n)

OddArrays(n) == {ByteArray(255, 0, n), ByteArray(170, 1, n)}

TopUpBytes == {0, 255}

(***************************************************************************)
(* Lines 118-130: the for loop over the batch.                             *)
(***************************************************************************)
MaxValidValue_NoRejection(cs) == 256

MaxValidValue(cs) == 256 - (256 % Len(cs))

ForStep_Prepends(acc, randomValue, cs) ==
  IF randomValue < MaxValidValue(cs)
  THEN << cs[(randomValue % Len(cs)) + 1] >> \o acc
  ELSE acc

\* the loop body, lines 123-129
ForStep(acc, randomValue, cs) ==
  IF randomValue < MaxValidValue(cs)
  THEN Append(acc, cs[(randomValue % Len(cs)) + 1])
  ELSE acc

RECURSIVE ForLoop(_, _, _, _, _)
ForLoop(i, acc, bytes, cs, length) ==
  IF i < Len(bytes) /\ Len(acc) < length
  THEN ForLoop(i + 1, ForStep(acc, bytes[i + 1], cs), bytes, cs, length)
  ELSE acc

(***************************************************************************)
(* Lines 133-138: one iteration of the while loop.                         *)
(***************************************************************************)
TopUpLimit(cs) == 256 - (256 % Len(cs))

TopUpAppend_Drops(acc, b, cs) == acc

TopUpAppend(acc, b, cs) ==
  IF b < TopUpLimit(cs) THEN Append(acc, cs[(b % Len(cs)) + 1]) ELSE acc

(***************************************************************************)
(* Lines 67-84.  Math.log(n) / Math.log(2) is modelled by                  *)
(* floor(10^6 * log2 n); for every n in 1..256 and length in 1..128 the    *)
(* comparisons with 45, 60, 80, 100 and Math.round come out as they do     *)
(* for the exact real length * log2 n (and for IEEE doubles).              *)
(***************************************************************************)
Log2Micro ==
  << 0, 1000000, 1584962, 2000000, 2321928, 2584962, 2807354, 3000000,
     3169925, 3321928, 3459431, 3584962, 3700439, 3807354, 3906890, 4000000,
     4087462, 4169925, 4247927, 4321928, 4392317, 4459431, 4523561, 4584962,
     4643856, 4700439, 4754887, 4807354, 4857980, 4906890, 4954196, 5000000,
     5044394, 5087462, 5129283, 5169925, 5209453, 5247927, 5285402, 5321928,
     5357552, 5392317, 5426264, 5459431, 5491853, 5523561, 5554588, 5584962,
     5614709, 5643856, 5672425, 5700439, 5727920, 5754887, 5781359, 5807354,
     5832890, 5857980, 5882643, 5906890, 5930737, 5954196, 5977279, 6000000,
     6022367, 6044394, 6066089, 6087462, 6108524, 6129283, 6149747, 6169925,
     6189824, 6209453, 6228818, 6247927, 6266786, 6285402, 6303780, 6321928,
     6339850, 6357552, 6375039, 6392317, 6409390, 6426264, 6442943, 6459431,
     6475733, 6491853, 6507794, 6523561, 6539158, 6554588, 6569855, 6584962,
     6599912, 6614709, 6629356, 6643856, 6658211, 6672425, 6686500, 6700439,
     6714245, 6727920, 6741466, 6754887, 6768184, 6781359, 6794415, 6807354,
     6820178, 6832890, 6845490, 6857980, 6870364, 6882643, 6894817, 6906890,
     6918863, 6930737, 6942514, 6954196, 6965784, 6977279, 6988684, 7000000,
     7011227, 7022367, 7033423, 7044394, 7055282, 7066089, 7076815, 7087462,
     7098032, 7108524, 7118941, 7129283, 7139551, 7149747, 7159871, 7169925,
     7179909, 7189824, 7199672, 7209453, 7219168, 7228818, 7238404, 7247927,
     7257387, 7266786, 7276124, 7285402, 7294620, 7303780, 7312882, 7321928,
     7330916, 7339850, 7348728, 7357552, 7366322, 7375039, 7383704, 7392317,
     7400879, 7409390, 7417852, 7426264, 7434628, 7442943, 7451211, 7459431,
     7467605, 7475733, 7483815, 7491853, 7499845, 7507794, 7515699, 7523561,
     7531381, 7539158, 7546894, 7554588, 7562242, 7569855, 7577428, 7584962,
     7592457, 7599912, 7607330, 7614709, 7622051, 7629356, 7636624, 7643856,
     7651051, 7658211, 7665335, 7672425, 7679480, 7686500, 7693486, 7700439,
     7707359, 7714245, 7721099, 7727920, 7734709, 7741466, 7748192, 7754887,
     7761551, 7768184, 7774787, 7781359, 7787902, 7794415, 7800899, 7807354,
     7813781, 7820178, 7826548, 7832890, 7839203, 7845490, 7851749, 7857980,
     7864186, 7870364, 7876516, 7882643, 7888743, 7894817, 7900866, 7906890,
     7912889, 7918863, 7924812, 7930737, 7936637, 7942514, 7948367, 7954196,
     7960001, 7965784, 7971543, 7977279, 7982993, 7988684, 7994353, 8000000 >>

\* entropy in millionths of a bit
CalculateEntropy(cs, length) == length * Log2Micro[Len(cs)]

GetStrengthLevel_UpperInclusive(entropyValue) ==
  IF entropyValue <= 45 * Micro THEN 0
  ELSE IF entropyValue <= 60 * Micro THEN 1
  ELSE IF entropyValue <= 80 * Micro THEN 2
  ELSE IF entropyValue <= 100 * Micro THEN 3
  ELSE 4

GetStrengthLevel(entropyValue) ==
  IF entropyValue < 45 * Micro THEN 0
  ELSE IF entropyValue < 60 * Micro THEN 1
  ELSE IF entropyValue < 80 * Micro THEN 2
  ELSE IF entropyValue < 100 * Micro THEN 3
  ELSE 4

\* Math.round: floor(x + 0.5)
MathRound(entropyValue) == (2 * entropyValue + Micro) \div (2 * Micro)

NewHistory_KeepsFive(pw, prevHistory) ==
  << pw >> \o SubSeq(prevHistory, 1, IF Len(prevHistory) < HistoryKeep + 1
                                     THEN Len(prevHistory) ELSE HistoryKeep + 1)

\* [newPassword, ...prevHistory.slice(0, 4)], line 154
NewHistory(pw, prevHistory) ==
  << pw >> \o SubSeq(prevHistory, 1, IF Len(prevHistory) < HistoryKeep
                                     THEN Len(prevHistory) ELSE HistoryKeep)

(***************************************************************************)
(* Sessions: what the user and the random source do is bounded by one of   *)
(* these budgets.                                                          *)
(***************************************************************************)
NoFuel == [toggles |-> 0, lens |-> 0, clicks |-> 0, views |-> 0, odd |-> 0]

Profiles ==
  { [NoFuel EXCEPT !.toggles = MaxOptionChanges],
    [NoFuel EXCEPT !.lens = MaxLengthChanges],
    [NoFuel EXCEPT !.clicks = MaxClicks, !.views = MaxViews, !.odd = MaxOddDraws],
    [NoFuel EXCEPT !.clicks = 1, !.toggles = 1, !.views = MaxViews, !.odd = MaxOddDraws] }

\* the component after its first render, lines 20-38
Constructed(opts, length, f) ==
  /\ password = << >>
  /\ passwordLength = length
  /\ entropy = 0
  /\ passwordHistory = << >>
  /\ showPasswordHistory = FALSE
  /\ copied = FALSE
  /\ strengthLevel = 0
  /\ options = opts
  /\ effectPending = TRUE
  /\ pc = "idle"
  /\ charset = << >>
  /\ randomBytes = << >>
  /\ newPassword = << >>
  /\ extraBytes = -1
  /\ outcome = "none"
  /\ copyTimers = 0
  /\ generations = 0
  /\ fuel = f

Init == \E f \in Profiles : Constructed(DefaultOptions, DefaultLength, f)

(***************************************************************************)
(* The inputs of one generatePassword call, for the claims about what it   *)
(* computes from them: every policy and every length the slider offers.    *)
(***************************************************************************)
AllPolicies == [OptionNames -> BOOLEAN]

InitInputs ==
  \E opts \in AllPolicies, length \in MinLength..MaxLength :
    Constructed(opts, length, [NoFuel EXCEPT !.odd = MaxOddDraws])

UiReady == pc = "idle" /\ ~effectPending

reactState == << password, passwordLength, entropy, passwordHistory,
                 showPasswordHistory, copied, strengthLevel, options >>

locals == << charset, randomBytes, newPassword, extraBytes >>

(***************************************************************************)
(* generatePassword, lines 90-160, up to its first top-up draw.            *)
(***************************************************************************)
EmptyCharset_Records ==
  /\ Len(BuildCharset(options)) = 0
  /\ password' = EmptyCharsetMessage
  /\ entropy' = 0
  /\ strengthLevel' = 0
  /\ outcome' = "emptyPool"
  /\ passwordHistory' = << EmptyCharsetMessage >> \o passwordHistory
  /\ UNCHANGED << passwordLength, showPasswordHistory,
                  copied, options, pc, charset, randomBytes, newPassword,
                  extraBytes, copyTimers, generations >>

\* lines 107-113
EmptyCharset ==
  /\ Len(BuildCharset(options)) = 0
  /\ password' = EmptyCharsetMessage
  /\ entropy' = 0
  /\ strengthLevel' = 0
  /\ outcome' = "emptyPool"
  /\ UNCHANGED << passwordLength, passwordHistory, showPasswordHistory,
                  copied, options, pc, locals, copyTimers, generations >>

BatchThrows ==
  /\ Len(BuildCharset(options)) > 0
  /\ outcome' = "threw"
  /\ UNCHANGED << reactState, pc, locals, copyTimers, generations >>

BatchDrawn(bytes) ==
  /\ Len(BuildCharset(options)) > 0
  /\ charset' = BuildCharset(options)
  /\ randomBytes' = bytes
  /\ newPassword' = ForLoop(0, << >>, bytes, BuildCharset(options), passwordLength)
  /\ pc' = "topup"
  /\ UNCHANGED << reactState, extraBytes, outcome, copyTimers, generations >>

GenerateBegin(f) ==
  \/ EmptyCharset /\ fuel' = f
  \/ BatchThrows /\ fuel' = f
  \/ BatchDrawn(ReferenceArray(passwordLength * 2)) /\ fuel' = f
  \/ /\ f.odd > 0
     /\ \E bytes \in OddArrays(passwordLength * 2) : BatchDrawn(bytes)
     /\ fuel' = [f EXCEPT !.odd = @ - 1]

\* useEffect(() => generatePassword(), [generatePassword]), lines 163-165
EffectGenerate ==
  /\ pc = "idle"
  /\ effectPending
  /\ effectPending' = FALSE
  /\ GenerateBegin(fuel)

\* onClick={generatePassword}, line 388
ClickGenerate ==
  /\ UiReady
  /\ fuel.clicks > 0
  /\ UNCHANGED effectPending
  /\ GenerateBegin([fuel EXCEPT !.clicks = @ - 1])

(***************************************************************************)
(* The while loop of lines 133-138: one draw per step.                     *)
(***************************************************************************)
WhileCondition_OffByOne == Len(newPassword) < passwordLength - 1

\* newPassword.length < passwordLength, line 133
WhileCondition == Len(newPassword) < passwordLength

InTopUpLoop == pc = "topup" /\ WhileCondition

TopUpThrows_PublishesPartial ==
  /\ InTopUpLoop
  /\ password' = newPassword
  /\ pc' = "idle"
  /\ charset' = << >>
  /\ randomBytes' = << >>
  /\ newPassword' = << >>
  /\ extraBytes' = -1
  /\ outcome' = "threw"
  /\ UNCHANGED << passwordLength, entropy, passwordHistory, showPasswordHistory,
                  copied, strengthLevel, options, effectPending, copyTimers,
                  generations, fuel >>

\* getSecureRandomValues(1) throws at line 134
TopUpThrows ==
  /\ InTopUpLoop
  /\ pc' = "idle"
  /\ charset' = << >>
  /\ randomBytes' = << >>
  /\ newPassword' = << >>
  /\ extraBytes' = -1
  /\ outcome' = "threw"
  /\ UNCHANGED << reactState, effectPending, copyTimers, generations, fuel >>

TopUpDrawn(b) ==
  /\ InTopUpLoop
  /\ extraBytes' = b
  /\ newPassword' = TopUpAppend(newPassword, b, charset)
  /\ UNCHANGED << reactState, effectPending, pc, charset, randomBytes,
                  outcome, copyTimers, generations, fuel >>

TopUp == TopUpThrows \/ \E b \in TopUpBytes : TopUpDrawn(b)

(***************************************************************************)
(* Lines 140-159: the loops are over; score, publish, record.              *)
(***************************************************************************)
Finish ==
  /\ pc = "topup"
  /\ ~WhileCondition
  /\ password' = newPassword
  /\ entropy' = MathRound(CalculateEntropy(charset, passwordLength))
  /\ strengthLevel' = GetStrengthLevel(CalculateEntropy(charset, passwordLength))
  /\ passwordHistory' = NewHistory(newPassword, passwordHistory)
  /\ copied' = FALSE
  /\ pc' = "idle"
  /\ charset' = << >>
  /\ randomBytes' = << >>
  /\ newPassword' = << >>
  /\ extraBytes' = -1
  /\ outcome' = "generated"
  /\ generations' = generations + 1
  /\ UNCHANGED << passwordLength, showPasswordHistory, options,
                  effectPending, copyTimers, fuel >>

(***************************************************************************)
(* User events and timers.                                                 *)
(***************************************************************************)
\* handleOptionChange, lines 203-209; a checkbox reports the flipped value
HandleOptionChange(name) ==
  /\ UiReady
  /\ fuel.toggles > 0
  /\ options' = [options EXCEPT ![name] = ~options[name]]
  /\ effectPending' = TRUE
  /\ fuel' = [fuel EXCEPT !.toggles = @ - 1]
  /\ UNCHANGED << password, passwordLength, entropy, passwordHistory,
                  showPasswordHistory, copied, strengthLevel, pc, locals,
                  outcome, copyTimers, generations >>

\* the range input, lines 305-312
SelectableLengths == MinLength..MaxLength

ChangeLength(v) ==
  /\ UiReady
  /\ fuel.lens > 0
  /\ v \in SelectableLengths
  /\ v # passwordLength
  /\ passwordLength' = v
  /\ effectPending' = TRUE
  /\ fuel' = [fuel EXCEPT !.lens = @ - 1]
  /\ UNCHANGED << password, entropy, passwordHistory, showPasswordHistory,
                  copied, strengthLevel, options, pc, locals, outcome,
                  copyTimers, generations >>

\* copyToClipboard, lines 170-197: the write (or its fallback) succeeds ...
CopySucceeds ==
  /\ UiReady
  /\ fuel.views > 0
  /\ copied' = TRUE
  /\ copyTimers' = copyTimers + 1
  /\ fuel' = [fuel EXCEPT !.views = @ - 1]
  /\ UNCHANGED << password, passwordLength, entropy, passwordHistory,
                  showPasswordHistory, strengthLevel, options, effectPending,
                  pc, locals, outcome, generations >>

\* ... or both fail (line 192)
CopyFails ==
  /\ UiReady
  /\ fuel.views > 0
  /\ fuel' = [fuel EXCEPT !.views = @ - 1]
  /\ UNCHANGED << reactState, effectPending, pc, locals, outcome, copyTimers,
                  generations >>

CopyToClipboard == CopySucceeds \/ CopyFails

\* setTimeout(() => setCopied(false), 2000), lines 176 and 190
CopyTimeout ==
  /\ pc = "idle"
  /\ copyTimers > 0
  /\ copied' = FALSE
  /\ copyTimers' = copyTimers - 1
  /\ UNCHANGED << password, passwordLength, entropy, passwordHistory,
                  showPasswordHistory, strengthLevel, options, effectPending,
                  pc, locals, outcome, generations, fuel >>

\* the history toggle, line 397
ToggleHistory ==
  /\ UiReady
  /\ fuel.views > 0
  /\ showPasswordHistory' = ~showPasswordHistory
  /\ fuel' = [fuel EXCEPT !.views = @ - 1]
  /\ UNCHANGED << password, passwordLength, entropy, passwordHistory, copied,
                  strengthLevel, options, effectPending, pc, locals, outcome,
                  copyTimers, generations >>

\* 'Use' on a history entry, lines 402-416
UseHistoryItem(index) ==
  /\ UiReady
  /\ fuel.views > 0
  /\ showPasswordHistory
  /\ index \in 1..Len(passwordHistory)
  /\ password' = passwordHistory[index]
  /\ copied' = FALSE
  /\ fuel' = [fuel EXCEPT !.views = @ - 1]
  /\ UNCHANGED << passwordLength, entropy, passwordHistory,
                  showPasswordHistory, strengthLevel, options, effectPending,
                  pc, locals, outcome, copyTimers, generations >>

Next ==
  \/ EffectGenerate
  \/ ClickGenerate
  \/ TopUp
  \/ Finish
  \/ \E name \in OptionNames : HandleOptionChange(name)
  \/ \E v \in SelectableLengths : ChangeLength(v)
  \/ CopyToClipboard
  \/ CopyTimeout
  \/ ToggleHistory
  \/ \E index \in 1..(HistoryKeep + 1) : UseHistoryItem(index)

Spec == Init /\ [][Next]_vars

\* the first generatePassword call of a freshly rendered component
NextGenerate == EffectGenerate \/ TopUp \/ Finish

SpecInputs == InitInputs /\ [][NextGenerate]_vars

(***************************************************************************)
(* Liveness: a running generatePassword call keeps running (JavaScript     *)
(* runs it to completion), and the random source does not withhold an      *)
(* accepted byte for ever.                                                 *)
(***************************************************************************)
TopUpAccepted ==
  /\ InTopUpLoop
  /\ \E b \in TopUpBytes : b < TopUpLimit(charset) /\ TopUpDrawn(b)

FairSpec == Spec /\ WF_vars(TopUpAccepted) /\ WF_vars(Finish)

(***************************************************************************)
(* C1: a byte b yields a character iff b < 256 - (256 mod N), and the      *)
(* character is charset[b mod N], in the for loop and in the while loop    *)
(* alike; hence every index in [0, N) is hit by exactly floor(256 / N)     *)
(* accepted byte values.  Checked for all 256 byte values on the charset   *)
(* of every call that reaches its loops.                                   *)
(***************************************************************************)
ByteRule(b, cs) ==
  IF b < 256 - (256 % Len(cs)) THEN << cs[(b % Len(cs)) + 1] >> ELSE << >>

AcceptedByFor(cs) == {b \in 0..255 : ForStep(<< >>, b, cs) # << >>}

AcceptedByWhile(cs) == {b \in 0..255 : TopUpAppend(<< >>, b, cs) # << >>}

\* the accepted byte values that are mapped to index i
HitsOf(i, accepted, n) ==
  Cardinality({k \in 0..((255 - i) \div n) : (i + k * n) \in accepted})

C1_RejectionSampling ==
  (pc = "topup" /\ extraBytes = -1) =>
    LET n == Len(charset)
        byFor == AcceptedByFor(charset)
        byWhile == AcceptedByWhile(charset)
    IN  /\ n \in 1..256
        /\ \A b \in 0..255 :
             /\ ForStep(<< >>, b, charset) = ByteRule(b, charset)
             /\ TopUpAppend(<< >>, b, charset) = ByteRule(b, charset)
        /\ \A i \in 0..(n - 1) :
             /\ HitsOf(i, byFor, n) = 256 \div n
             /\ HitsOf(i, byWhile, n) = 256 \div n

\* a call on a 89-character pool (256 mod 89 = 78) whose batch held rejected bytes
C1_Witness ==
  /\ pc = "topup"
  /\ extraBytes = -1
  /\ Len(charset) = 89
  /\ \E j \in 1..Len(randomBytes) : randomBytes[j] >= 178
  /\ Len(newPassword) > 0

\* a step in which a generatePassword call publishes its password
Published == generations' = generations + 1

(***************************************************************************)
(* C2: a generatePassword call that completes sets password to a string of *)
(* exactly passwordLength characters, each a member of the character set   *)
(* built from the options in force for that call.                          *)
(***************************************************************************)
C2_LengthAndMembership ==
  [][Published =>
       /\ Len(password') = passwordLength
       /\ \A i \in 1..Len(password') :
            password'[i] \in Range(BuildCharset(options))]_vars

\* the longest password over the largest pool (166 characters), which the
\* batch alone cannot fill
C2_Witness ==
  /\ generations = 1
  /\ passwordLength = MaxLength
  /\ Len(password) = MaxLength
  /\ Len(BuildCharset(options)) = 166

(***************************************************************************)
(* C4: the character set built from a policy with a non-empty pool holds   *)
(* no character of Il1O0 when options.ambiguous is false, and every        *)
(* character of Il1O0 that belongs to an included class when it is true.   *)
(***************************************************************************)
C4_AmbiguousFilter ==
  (pc = "topup" /\ extraBytes = -1) =>
    /\ charset = BuildCharset(options)
    /\ ~options.ambiguous =>
         \A c \in Range(CharSets.ambiguous) : c \notin Range(charset)
    /\ options.ambiguous =>
         \A name \in InclusionNames :
           options[name] =>
             \A c \in Range(CharSets.ambiguous) \cap Range(CharSets[name]) :
               c \in Range(charset)

\* ambiguous characters allowed, uppercase and numbers included: I, O, 1, 0 kept
C4_Witness ==
  /\ pc = "topup"
  /\ options.ambiguous /\ options.uppercase /\ options.numbers
  /\ {73, 79, 49, 48} \subseteq Range(charset)

(***************************************************************************)
(* C7: the strength level stored by a successful generation is the tier of *)
(* entropy = length * log2(N): below 45 is 0, [45, 60) is 1, [60, 80) is   *)
(* 2, [80, 100) is 3, 100 and above is 4; N = 64 and length 16 give 96     *)
(* bits and tier 3.                                                        *)
(***************************************************************************)
TierRule(n, length, tier, rounded) ==
  LET bits == length * Log2Micro[n]
  IN  /\ bits < 45 * Micro => tier = 0
      /\ (45 * Micro <= bits /\ bits < 60 * Micro) => tier = 1
      /\ (60 * Micro <= bits /\ bits < 80 * Micro) => tier = 2
      /\ (80 * Micro <= bits /\ bits < 100 * Micro) => tier = 3
      /\ 100 * Micro <= bits => tier = 4
      /\ \A k \in 0..8 : n = 2 ^ k => (bits = length * k * Micro /\ rounded = length * k)
      /\ (n = 64 /\ length = 16) => (bits = 96 * Micro /\ tier = 3)

C7_StrengthTier ==
  [][Published =>
       TierRule(Len(BuildCharset(options)), passwordLength, strengthLevel', entropy')]_vars

\* uppercase + numbers + symbols without Il1O0: 24 + 8 + 32 = 64 characters
C7_Witness ==
  /\ generations = 1
  /\ Len(BuildCharset(options)) = 64
  /\ passwordLength = 16
  /\ entropy = 96
  /\ strengthLevel = 3

\* a step that enters generatePassword (from the effect or from the button)
GenerateCalled ==
  /\ pc = "idle"
  /\ (effectPending /\ ~effectPending') \/ fuel'.clicks = fuel.clicks - 1

\* a step in which a draw from the random source throws
ThrowStep ==
  /\ outcome' = "threw"
  /\ pc' = "idle"
  /\ GenerateCalled \/ pc = "topup"

(***************************************************************************)
(* C3: with every inclusion flag false, generatePassword fails with an     *)
(* explicit error and hands no password value to its caller: the call      *)
(* writes nothing into password (it may at most clear it).                 *)
(***************************************************************************)
C3_InvalidPolicyIsAnError ==
  [][(GenerateCalled /\ \A name \in InclusionNames : ~options[name]) =>
       password' \in {password, << >>}]_vars

(***************************************************************************)
(* C5: the history holds at most 5 passwords, newest first; a successful   *)
(* generation puts its password at the head, keeps the order of the older  *)
(* entries and, once there are 5, drops exactly the oldest.                *)
(***************************************************************************)
C5_HistoryNewestFirst ==
  /\ [](Len(passwordHistory) <= 5)
  /\ [](Len(passwordHistory) = IF generations < 5 THEN generations ELSE 5)
  /\ [][Published =>
          /\ passwordHistory'[1] = password'
          /\ Len(passwordHistory') =
               IF Len(passwordHistory) < 5 THEN Len(passwordHistory) + 1 ELSE 5
          /\ \A i \in 1..(Len(passwordHistory') - 1) :
               passwordHistory'[i + 1] = passwordHistory[i]]_vars

\* a sixth password has pushed out the first, and differs from the one before it
C5_Witness ==
  /\ generations = 6
  /\ Len(passwordHistory) = 5
  /\ passwordHistory[1] # passwordHistory[2]
  /\ password = passwordHistory[1]

(***************************************************************************)
(* C6: only a successful generation changes the history; a call that ends  *)
(* in the empty-pool message, 'Use' on an entry, copying and toggling the  *)
(* panel leave it as it was.                                               *)
(***************************************************************************)
C6_HistoryFrame ==
  [][passwordHistory' # passwordHistory => Published]_vars

\* the empty-pool message is shown and the four earlier passwords are kept
C6_Witness ==
  /\ outcome = "emptyPool"
  /\ password = EmptyCharsetMessage
  /\ Len(passwordHistory) = 4
  /\ \A i \in 1..4 : passwordHistory[i] # EmptyCharsetMessage

(***************************************************************************)
(* C8: the length is adjustable from 8 to 128: it is never outside         *)
(* [8, 128], and whenever the slider can be moved every length from 8 to   *)
(* 128 can be chosen.                                                      *)
(***************************************************************************)
C8_LengthAdjustableTo128 ==
  /\ passwordLength \in 8..128
  /\ (UiReady /\ fuel.lens > 0) =>
       \A length \in 8..128 :
         length # passwordLength => ENABLED ChangeLength(length)

(***************************************************************************)
(* C9: when a draw throws, in the batch or in a top-up, the call ends      *)
(* without changing password, entropy, strengthLevel or passwordHistory.   *)
(***************************************************************************)
C9_ThrowChangesNothing ==
  [][ThrowStep =>
       UNCHANGED << password, entropy, strengthLevel, passwordHistory >>]_vars

\* a call has thrown and the password of the call before it is still shown
C9_Witness ==
  /\ outcome = "threw"
  /\ pc = "idle"
  /\ generations >= 1
  /\ Len(password) = passwordLength
  /\ password = passwordHistory[1]

(***************************************************************************)
(* C10: an accepted byte exists for every pool the loop runs on, the       *)
(* while loop ends once the source has returned enough accepted bytes,     *)
(* and it never exits normally with fewer than passwordLength characters.  *)
(***************************************************************************)
C10_TopUpTerminates ==
  /\ [](pc = "topup" => TopUpLimit(charset) > 0)
  /\ (pc = "topup") ~> (pc = "idle")
  /\ [][Published => Len(password') = passwordLength]_vars

\* the while loop has just drawn a rejected byte and is one character short
C10_Witness ==
  /\ pc = "topup"
  /\ extraBytes >= TopUpLimit(charset)
  /\ Len(newPassword) = passwordLength - 1

(***************************************************************************)
(* C11: the password equals the output of a reference sampler that reads   *)
(* the drawn bytes one at a time, in draw order, and appends               *)
(* pool[b mod N] for each accepted byte until `length` characters are      *)
(* collected.  The batch of 2 * length bytes leaves newPassword where the  *)
(* reference sampler stands after reading those bytes; each top-up draw    *)
(* moves it as the reference sampler moves on that one byte; and what is   *)
(* published is that string, complete and in that order (no shuffle).      *)
(***************************************************************************)
RECURSIVE ReferenceSampler(_, _, _, _)
ReferenceSampler(collected, stream, pool, length) ==
  IF stream = << >> \/ Len(collected) >= length
  THEN collected
  ELSE LET b == Head(stream)
           n == Len(pool)
           accepted == b < 256 - (256 % n)
       IN  ReferenceSampler(IF accepted THEN collected \o << pool[(b % n) + 1] >>
                                        ELSE collected,
                            Tail(stream), pool, length)

C12_DisplayedMatchesSettings ==
  (UiReady /\ outcome \in {"generated", "emptyPool"}) =>
    /\ Len(password) = passwordLength
    /\ \A i \in 1..Len(password) : password[i] \in Range(BuildCharset(options))
====
